---- MODULE Spec2Model ----
(***************************************************************************)
(* Pipeline execution and status tracking of app_ef                        *)
(* (backend/app/api/v1/pipelines.py, backend/app/core/ef_wrapper.py,       *)
(* backend/app/core/config.py).                                            *)
(*                                                                         *)
(* The server is one asyncio event loop: a coroutine runs without          *)
(* interruption from one suspending await to the next, so every action     *)
(* below is one such slice of a handler or of the background task.         *)
(* Progress fractions are kept in tenths (5 is 0.5, 10 is 1.0).            *)
(* An Optional value is a sequence of length at most one.                  *)
(***************************************************************************)
EXTENDS Integers, Sequences, FiniteSets, TLC

\* ------------------------------------------------------------------ bounds
MaxExec == 2
MaxClock == 1
Excess == 1
MaxCount == 2

\* --------------------------------------------------------- program constants
max_concurrent_pipelines == 5

\* ------------------------------------------------------------------ domains
ExecIds == 1..MaxExec
LimitIds == 1..(max_concurrent_pipelines + Excess)
Projects == {"p1"}
ProjectIds == {"p1", "p2"}
PipelineNames == {"full_analysis"}

\* The (progress, message) pairs an engine may pass to the progress callback:
\* the three reports of the bundled mock, and two values outside [0.0, 1.0].
MockReports ==
    << [progress |-> 0, message |-> "Starting pipeline"],
       [progress |-> 5, message |-> "Processing embeddings"],
       [progress |-> 10, message |-> "Pipeline complete"] >>
Reports ==
    { MockReports[i] : i \in 1..Len(MockReports) }
        \cup { [progress |-> 0 - 2, message |-> "Rewinding"],
               [progress |-> 15, message |-> "Overshoot"] }
\* str(e) of the exceptions an engine may raise.
Errors == {"engine error"}

None == << >>
Some(x) == << x >>

\* The websockets that connect, and the state of one that has not connected.
Sockets == {"ws1", "ws2"}
NoSocket ==
    [ pc |-> "idle", execution_id |-> 0, sent |-> None, count |-> 0, late |-> FALSE ]

\* The requests that find no wrapper cached, and one that has not arrived.
Requests == {"r1", "r2"}
NoRequest == [ pc |-> "idle", project_id |-> "", op |-> "", wrapper |-> None ]

\* A broadcast_execution_update call that has not been made.
NoBroadcast ==
    [ pc |-> "idle", execution_id |-> 0, used |-> 0, to |-> None,
      visited |-> {}, disconnected |-> {}, dirty |-> FALSE, detached |-> FALSE ]

\* The n-th EFProjectWrapper built for a project.
Wrapper(project_id, n) == << project_id, n >>

VARIABLES
    now,                   \* the value datetime.utcnow() returns
    storage_pipelines,     \* project id -> names of the pipeline files in storage
    _pipeline_executions,  \* execution id -> record (the module-level dict)
    task,                  \* execution id -> position of its background task
    returned,              \* execution id -> number of 202 responses that carried it
    raised,                \* execution id -> what the engine raised, if it did
    response,              \* the latest HTTP response of execute_pipeline
    wrapper_of,            \* execution id -> the wrapper its task holds
    mock_project,          \* wrapper -> the dicts of its MockEFProject
    ws,                    \* websocket -> position and data of its handler
    active_connections,    \* execution id -> set of websockets (the module-level dict)
    _project_wrappers,     \* project id -> the wrapper ProjectService has cached
    req,                   \* request -> position of its _get_wrapper call
    bc                     \* position and data of a broadcast_execution_update call

run_vars == << now, storage_pipelines, _pipeline_executions, task, returned, raised >>
stream_vars == << ws, active_connections >>
side_vars == << response, wrapper_of, mock_project, ws, active_connections >>
cache_vars == << _project_wrappers, req >>
vars ==
    << now, storage_pipelines, _pipeline_executions, task, returned, raised,
       response, wrapper_of, mock_project, ws, active_connections,
       _project_wrappers, req, bc >>

\* ------------------------------------------------------------------ helpers
Terminal == {"completed", "failed"}
Statuses == {"pending", "running", "completed", "failed"}

\* uuid.uuid4(): a value that no earlier call returned. The values are opaque and
\* interchangeable, so the least unused one stands for any of them.
uuid4(ids) ==
    { id \in ids : returned[id] = 0 /\ \A other \in ids : other < id => returned[other] > 0 }

\* wrapper.list_pipelines(): the stems of the project's pipeline files.
list_pipelines(project_id) ==
    IF project_id \in DOMAIN storage_pipelines THEN storage_pipelines[project_id] ELSE {}

\* Depends(get_project_wrapper) with the wrapper in ProjectService's cache:
\* _get_wrapper returns it without suspending.
Cached(project_id) == project_id \in DOMAIN _project_wrappers

\* The dict literal of execute_pipeline.
NewExecution(execution_id, pipeline_name) ==
    [ execution_id |-> execution_id,
      pipeline_name |-> pipeline_name,
      status |-> "running",
      progress |-> 0,
      message |-> "Starting pipeline execution...",
      started_at |-> now,
      completed_at |-> None,
      error |-> None ]

\* progress_callback(progress, message), applied to the record.
progress_callback(rec, progress, message) ==
    [ rec EXCEPT !.progress = progress, !.message = message ]

\* A completion that also fills the error field (with an empty string).
MarkCompleted_with_error(rec) ==
    [ rec EXCEPT !.status = "completed",
                 !.progress = 10,
                 !.message = "Pipeline completed successfully",
                 !.error = Some(""),
                 !.completed_at = Some(now) ]

\* "Mark as completed": the four assignments after wrapper.run_pipeline returns.
MarkCompleted(rec) ==
    [ rec EXCEPT !.status = "completed",
                 !.progress = 10,
                 !.message = "Pipeline completed successfully",
                 !.completed_at = Some(now) ]

\* A failure handler that forgets the completion stamp.
MarkFailed_no_stamp(rec, e) ==
    [ rec EXCEPT !.status = "failed", !.error = Some(e) ]

\* A failure handler that records the error and the stamp but not the status.
MarkFailed_keeps_running(rec, e) ==
    [ rec EXCEPT !.error = Some(e), !.completed_at = Some(now) ]

\* A failure handler that also resets the start stamp.
MarkFailed_restamps_start(rec, e) ==
    [ rec EXCEPT !.status = "failed",
                 !.error = Some(e),
                 !.started_at = now,
                 !.completed_at = Some(now) ]

\* The body of "except Exception as e".
MarkFailed(rec, e) ==
    [ rec EXCEPT !.status = "failed",
                 !.error = Some(e),
                 !.completed_at = Some(now) ]

\* PipelineExecution(**record): the response model accepts progress in [0, 1] only.
PipelineExecutionValid(rec) == rec.progress >= 0 /\ rec.progress <= 10

\* get_execution_status: the response to a status query in the current state.
get_execution_status(execution_id) ==
    IF execution_id \notin DOMAIN _pipeline_executions
    THEN [ code |-> 404, body |-> None ]
    ELSE IF PipelineExecutionValid(_pipeline_executions[execution_id])
         THEN [ code |-> 200, body |-> Some(_pipeline_executions[execution_id]) ]
         ELSE [ code |-> 500, body |-> None ]

\* An HTTP response, with the path parameters of the request it answers
\* (execution_id is 0 for a route that has none).
Response(op, project_id, pipeline_name, execution_id, code, body) ==
    [ op |-> op, project_id |-> project_id, pipeline_name |-> pipeline_name,
      execution_id |-> execution_id, code |-> code, body |-> body ]
NoResponse == Response("none", "", "", 0, 0, None)

\* MockEFProject.__init__: sources is kept as the sequence of its items, in
\* insertion order, the result dicts as functions.
NewMockProject ==
    [ sources |-> << >>, segments |-> << >>, embeddings |-> << >>,
      planar_embeddings |-> << >>, clusters |-> << >> ]

SourceKeys(proj) == { proj.sources[i].key : i \in 1..Len(proj.sources) }

\* MockEFProject.add_source: self.sources[key] = content (an existing key keeps
\* its place in the dict).
mock_add_source(proj, key, content) ==
    [ proj EXCEPT !.sources =
        IF key \in SourceKeys(proj)
        THEN [ i \in 1..Len(@) |->
                 IF @[i].key = key THEN [ key |-> key, content |-> content ] ELSE @[i] ]
        ELSE Append(@, [ key |-> key, content |-> content ]) ]

\* EFProjectWrapper.remove_source: del self.project.sources[key], if present.
mock_remove_source(proj, key) ==
    LET keep(item) == item.key # key
    IN  [ proj EXCEPT !.sources = SelectSeq(@, keep) ]

\* MockEFProject.run_pipeline: for i, (key, content) in enumerate(self.sources.items()),
\* one entry per source in each of the four result dicts; other entries stay.
mock_run_pipeline(proj) ==
    LET n == Len(proj.sources)
        Index(k) == (CHOOSE i \in 1..n : proj.sources[i].key = k) - 1
        Put(d, value(_)) ==
            [ k \in DOMAIN d \cup SourceKeys(proj) |->
                IF k \in SourceKeys(proj) THEN value(k) ELSE d[k] ]
        Content(k) == proj.sources[Index(k) + 1].content
        Embedding(k) == << Index(k), Index(k) + 1, Index(k) + 2 >>
        Planar(k) == << Index(k), Index(k) + 1 >>
        Cluster(k) == Index(k) % 3
    IN  [ proj EXCEPT !.segments = Put(@, Content),
                      !.embeddings = Put(@, Embedding),
                      !.planar_embeddings = Put(@, Planar),
                      !.clusters = Put(@, Cluster) ]

Running(ids) ==
    { e \in ids \cap DOMAIN _pipeline_executions :
        _pipeline_executions[e].status = "running" }

\* The shape of the state: the fields of a record as execute_pipeline builds
\* them, and the positions of a background task.
TypeOK ==
    /\ now \in 0..MaxClock
    /\ storage_pipelines \in [ Projects -> SUBSET PipelineNames ]
    /\ DOMAIN _pipeline_executions \subseteq (ExecIds \cup LimitIds)
    /\ \A e \in DOMAIN _pipeline_executions :
         /\ DOMAIN _pipeline_executions[e] =
                { "execution_id", "pipeline_name", "status", "progress", "message",
                  "started_at", "completed_at", "error" }
         /\ _pipeline_executions[e].status \in Statuses
         /\ _pipeline_executions[e].started_at \in 0..MaxClock
         /\ Len(_pipeline_executions[e].completed_at) <= 1
         /\ Len(_pipeline_executions[e].error) <= 1
    /\ \A e \in ExecIds \cup LimitIds :
         /\ task[e] \in { "none", "queued", "engine", "done", "cancelled" }
         /\ returned[e] \in 0..1
         /\ Len(raised[e]) <= 1

\* --------------------------------------------------------------------- Init
Init ==
    /\ now = 0
    /\ storage_pipelines = [ p \in Projects |-> {} ]
    /\ _pipeline_executions = << >>
    /\ task = [ e \in LimitIds \cup ExecIds |-> "none" ]
    /\ returned = [ e \in LimitIds \cup ExecIds |-> 0 ]
    /\ raised = [ e \in LimitIds \cup ExecIds |-> None ]
    /\ response = NoResponse
    /\ wrapper_of = [ e \in LimitIds \cup ExecIds |-> None ]
    /\ mock_project = [ w \in { Wrapper(p, 1) : p \in Projects } |-> NewMockProject ]
    /\ ws = [ s \in Sockets |-> NoSocket ]
    /\ active_connections = << >>
    /\ _project_wrappers = [ p \in Projects |-> Wrapper(p, 1) ]
    /\ req = [ r \in Requests |-> NoRequest ]
    /\ bc = NoBroadcast

\* The state after a restart of the process over a storage that holds the
\* projects: nothing is cached and no wrapper has been built.
InitRestarted ==
    /\ now = 0
    /\ storage_pipelines = [ p \in Projects |-> {} ]
    /\ _pipeline_executions = << >>
    /\ task = [ e \in LimitIds \cup ExecIds |-> "none" ]
    /\ returned = [ e \in LimitIds \cup ExecIds |-> 0 ]
    /\ raised = [ e \in LimitIds \cup ExecIds |-> None ]
    /\ response = NoResponse
    /\ wrapper_of = [ e \in LimitIds \cup ExecIds |-> None ]
    /\ mock_project = << >>
    /\ ws = [ s \in Sockets |-> NoSocket ]
    /\ active_connections = << >>
    /\ _project_wrappers = << >>
    /\ req = [ r \in Requests |-> NoRequest ]
    /\ bc = NoBroadcast

\* ------------------------------------------------------------------ actions
\* Time passes.
Tick ==
    /\ now < MaxClock
    /\ now' = now + 1
    /\ UNCHANGED << storage_pipelines, _pipeline_executions, task, returned, raised >>
    /\ UNCHANGED side_vars
    /\ UNCHANGED cache_vars
    /\ UNCHANGED bc

\* The restriction of a dict to the keys other than k (del d[k], if present).
Without(d, k) == [ x \in DOMAIN d \ {k} |-> d[x] ]

\* POST /projects: the handler draws a fresh id, ProjectService.create_project
\* builds and initializes a wrapper (which writes the project's metadata) and
\* caches it.
create_project(project_id) ==
    /\ project_id \notin DOMAIN storage_pipelines
    /\ \A w \in DOMAIN mock_project : w[1] # project_id
    /\ storage_pipelines' = (project_id :> {}) @@ storage_pipelines
    /\ mock_project' = (Wrapper(project_id, 1) :> NewMockProject) @@ mock_project
    /\ _project_wrappers' = (project_id :> Wrapper(project_id, 1)) @@ _project_wrappers
    /\ UNCHANGED << now, _pipeline_executions, task, returned, raised >>
    /\ UNCHANGED << response, wrapper_of, ws, active_connections, req, bc >>

\* A deletion of a project that also evicts the records of its executions.
delete_project_evicts(project_id) ==
    /\ storage_pipelines' = Without(storage_pipelines, project_id)
    /\ _project_wrappers' = Without(_project_wrappers, project_id)
    /\ _pipeline_executions' =
           [ e \in { x \in DOMAIN _pipeline_executions :
                       wrapper_of[x][1][1] # project_id } |-> _pipeline_executions[e] ]
    /\ UNCHANGED << now, task, returned, raised >>
    /\ UNCHANGED << response, wrapper_of, mock_project, ws, active_connections, req, bc >>

\* DELETE /projects/{project_id}: ProjectService.delete_project removes the
\* project's directory (its pipelines with it) and the cached wrapper.
delete_project(project_id) ==
    /\ storage_pipelines' = Without(storage_pipelines, project_id)
    /\ _project_wrappers' = Without(_project_wrappers, project_id)
    /\ UNCHANGED << now, _pipeline_executions, task, returned, raised >>
    /\ UNCHANGED << response, wrapper_of, mock_project, ws, active_connections, req, bc >>

\* POST /{project_id}/pipelines
create_pipeline(project_id, name) ==
    /\ Cached(project_id)
    /\ storage_pipelines' =
           [ storage_pipelines EXCEPT ![project_id] = @ \cup {name} ]
    /\ UNCHANGED << now, _pipeline_executions, task, returned, raised >>
    /\ UNCHANGED side_vars
    /\ UNCHANGED cache_vars
    /\ UNCHANGED bc

\* A deletion that answers 204 and leaves the pipeline's file in storage.
delete_pipeline_keeps_file(project_id, pipeline_name) ==
    /\ Cached(project_id)
    /\ response' = Response("delete_pipeline", project_id, pipeline_name, 0, 204, None)
    /\ UNCHANGED run_vars
    /\ UNCHANGED << wrapper_of, mock_project, ws, active_connections >>
    /\ UNCHANGED cache_vars
    /\ UNCHANGED bc

\* DELETE /{project_id}/pipelines/{pipeline_name}
delete_pipeline(project_id, pipeline_name) ==
    /\ Cached(project_id)
    /\ storage_pipelines' =
           [ storage_pipelines EXCEPT ![project_id] = @ \ {pipeline_name} ]
    /\ response' = Response("delete_pipeline", project_id, pipeline_name, 0, 204, None)
    /\ UNCHANGED << now, _pipeline_executions, task, returned, raised >>
    /\ UNCHANGED << wrapper_of, mock_project, ws, active_connections >>
    /\ UNCHANGED cache_vars
    /\ UNCHANGED bc

\* A handler that answers 202 and leaves the storing of the record to the
\* background task.
execute_pipeline_store_later(ids, project_id, pipeline_name) ==
    /\ Cached(project_id)
    /\ pipeline_name \in list_pipelines(project_id)
    /\ \E execution_id \in uuid4(ids) :
         /\ task' = [ task EXCEPT ![execution_id] = "queued" ]
         /\ wrapper_of' = [ wrapper_of EXCEPT ![execution_id] =
                               Some(_project_wrappers[project_id]) ]
         /\ returned' = [ returned EXCEPT ![execution_id] = @ + 1 ]
         /\ response' = Response("execute", project_id, pipeline_name, 0, 202,
                                 Some(NewExecution(execution_id, pipeline_name)))
    /\ UNCHANGED << now, storage_pipelines, _pipeline_executions, raised >>
    /\ UNCHANGED << mock_project, ws, active_connections >>
    /\ UNCHANGED cache_vars
    /\ UNCHANGED bc

\* A handler that awaits the run and answers with the finished record.
execute_pipeline_awaits_run(ids, project_id, pipeline_name) ==
    /\ Cached(project_id)
    /\ pipeline_name \in list_pipelines(project_id)
    /\ \E execution_id \in uuid4(ids) :
         /\ _pipeline_executions' =
                (execution_id :> MarkCompleted(NewExecution(execution_id, pipeline_name)))
                    @@ _pipeline_executions
         /\ task' = [ task EXCEPT ![execution_id] = "done" ]
         /\ wrapper_of' = [ wrapper_of EXCEPT ![execution_id] =
                               Some(_project_wrappers[project_id]) ]
         /\ returned' = [ returned EXCEPT ![execution_id] = @ + 1 ]
         /\ response' =
                Response("execute", project_id, pipeline_name, 0, 202,
                         Some(MarkCompleted(NewExecution(execution_id, pipeline_name))))
    /\ UNCHANGED << now, storage_pipelines, raised >>
    /\ UNCHANGED << mock_project, ws, active_connections >>
    /\ UNCHANGED cache_vars
    /\ UNCHANGED bc

\* A handler that does not verify that the pipeline exists.
execute_pipeline_unchecked(ids, project_id, pipeline_name) ==
    /\ Cached(project_id)
    /\ \E execution_id \in uuid4(ids) :
         /\ _pipeline_executions' =
                (execution_id :> NewExecution(execution_id, pipeline_name))
                    @@ _pipeline_executions
         /\ task' = [ task EXCEPT ![execution_id] = "queued" ]
         /\ wrapper_of' = [ wrapper_of EXCEPT ![execution_id] =
                               Some(_project_wrappers[project_id]) ]
         /\ returned' = [ returned EXCEPT ![execution_id] = @ + 1 ]
         /\ response' = Response("execute", project_id, pipeline_name, 0, 202,
                                 Some(NewExecution(execution_id, pipeline_name)))
    /\ UNCHANGED << now, storage_pipelines, raised >>
    /\ UNCHANGED << mock_project, ws, active_connections >>
    /\ UNCHANGED cache_vars
    /\ UNCHANGED bc

\* POST /{project_id}/pipelines/{pipeline_name}/execute, answered 202: the record
\* is stored, run_pipeline is handed to the background tasks, the response is built.
execute_pipeline(ids, project_id, pipeline_name) ==
    /\ Cached(project_id)
    /\ pipeline_name \in list_pipelines(project_id)
    /\ \E execution_id \in uuid4(ids) :
         /\ _pipeline_executions' =
                (execution_id :> NewExecution(execution_id, pipeline_name))
                    @@ _pipeline_executions
         /\ task' = [ task EXCEPT ![execution_id] = "queued" ]
         /\ wrapper_of' = [ wrapper_of EXCEPT ![execution_id] =
                               Some(_project_wrappers[project_id]) ]
         /\ PipelineExecutionValid(NewExecution(execution_id, pipeline_name))
         /\ returned' = [ returned EXCEPT ![execution_id] = @ + 1 ]
         /\ response' = Response("execute", project_id, pipeline_name, 0, 202,
                                 Some(NewExecution(execution_id, pipeline_name)))
    /\ UNCHANGED << now, storage_pipelines, raised >>
    /\ UNCHANGED << mock_project, ws, active_connections >>
    /\ UNCHANGED cache_vars
    /\ UNCHANGED bc

\* The same request for a name that is not among the project's pipelines: 404.
execute_pipeline_not_found(project_id, pipeline_name) ==
    /\ Cached(project_id)
    /\ pipeline_name \notin list_pipelines(project_id)
    /\ response' = Response("execute", project_id, pipeline_name, 0, 404, None)
    /\ UNCHANGED run_vars
    /\ UNCHANGED << wrapper_of, mock_project, ws, active_connections >>
    /\ UNCHANGED cache_vars
    /\ UNCHANGED bc

\* The background task starts after the response was sent: run_pipeline enters
\* wrapper.run_pipeline, which runs up to its first suspension.
run_pipeline_start(execution_id) ==
    /\ task[execution_id] = "queued"
    /\ task' = [ task EXCEPT ![execution_id] = "engine" ]
    /\ UNCHANGED << now, storage_pipelines, _pipeline_executions, returned, raised >>
    /\ UNCHANGED side_vars
    /\ UNCHANGED cache_vars
    /\ UNCHANGED bc

\* A callback that writes the report into every record that is running.
engine_report_shared(execution_id, report) ==
    /\ task[execution_id] = "engine"
    /\ _pipeline_executions' =
           [ e \in DOMAIN _pipeline_executions |->
               IF _pipeline_executions[e].status = "running"
               THEN progress_callback(_pipeline_executions[e],
                                      report.progress, report.message)
               ELSE _pipeline_executions[e] ]
    /\ UNCHANGED << now, storage_pipelines, task, returned, raised >>
    /\ UNCHANGED side_vars
    /\ UNCHANGED cache_vars
    /\ UNCHANGED bc

\* The engine reports through the callback and goes on.
engine_report(execution_id, report) ==
    /\ task[execution_id] = "engine"
    /\ _pipeline_executions' =
           [ _pipeline_executions EXCEPT ![execution_id] =
                 progress_callback(@, report.progress, report.message) ]
    /\ UNCHANGED << now, storage_pipelines, task, returned, raised >>
    /\ UNCHANGED side_vars
    /\ UNCHANGED cache_vars
    /\ UNCHANGED bc

\* A completion mark that is written while the engine call is still going on.
engine_return_still_running(execution_id) ==
    /\ task[execution_id] = "engine"
    /\ _pipeline_executions[execution_id].status = "running"
    /\ _pipeline_executions' =
           [ _pipeline_executions EXCEPT ![execution_id] = MarkCompleted(@) ]
    /\ UNCHANGED << now, storage_pipelines, task, returned, raised >>
    /\ UNCHANGED side_vars
    /\ UNCHANGED cache_vars
    /\ UNCHANGED bc

\* An end of the run that marks the record completed and leaves the results
\* to be written afterwards.
engine_return_results_later(execution_id) ==
    /\ task[execution_id] = "engine"
    /\ _pipeline_executions' =
           [ _pipeline_executions EXCEPT ![execution_id] = MarkCompleted(@) ]
    /\ task' = [ task EXCEPT ![execution_id] = "done" ]
    /\ UNCHANGED << now, storage_pipelines, returned, raised >>
    /\ UNCHANGED << response, wrapper_of, mock_project, ws, active_connections >>
    /\ UNCHANGED cache_vars
    /\ UNCHANGED bc

\* wrapper.run_pipeline ends with self.project.run_pipeline(name) and returns:
\* the results are written, the record is marked completed and the task ends.
engine_return(execution_id) ==
    /\ task[execution_id] = "engine"
    /\ mock_project' =
           [ mock_project EXCEPT ![wrapper_of[execution_id][1]] = mock_run_pipeline(@) ]
    /\ _pipeline_executions' =
           [ _pipeline_executions EXCEPT ![execution_id] = MarkCompleted(@) ]
    /\ task' = [ task EXCEPT ![execution_id] = "done" ]
    /\ UNCHANGED << now, storage_pipelines, returned, raised >>
    /\ UNCHANGED << response, wrapper_of, ws, active_connections >>
    /\ UNCHANGED cache_vars
    /\ UNCHANGED bc

\* A failure handler inside the engine loop: the run goes on after it.
engine_raise_goes_on(execution_id, e) ==
    /\ task[execution_id] = "engine"
    /\ _pipeline_executions[execution_id].status = "running"
    /\ raised' = [ raised EXCEPT ![execution_id] = Some(e) ]
    /\ _pipeline_executions' =
           [ _pipeline_executions EXCEPT ![execution_id] = MarkFailed(@, e) ]
    /\ UNCHANGED << now, storage_pipelines, task, returned >>
    /\ UNCHANGED side_vars
    /\ UNCHANGED cache_vars
    /\ UNCHANGED bc

\* wrapper.run_pipeline raises an Exception: the handler marks the record failed,
\* run_pipeline returns normally and the task ends.
engine_raise(execution_id, e) ==
    /\ task[execution_id] = "engine"
    /\ raised' = [ raised EXCEPT ![execution_id] = Some(e) ]
    /\ _pipeline_executions' =
           [ _pipeline_executions EXCEPT ![execution_id] = MarkFailed(@, e) ]
    /\ task' = [ task EXCEPT ![execution_id] = "done" ]
    /\ UNCHANGED << now, storage_pipelines, returned >>
    /\ UNCHANGED side_vars
    /\ UNCHANGED cache_vars
    /\ UNCHANGED bc

\* The task is cancelled while it awaits the engine: asyncio.CancelledError is a
\* BaseException, "except Exception" does not catch it, and it ends the task.
task_cancelled(execution_id) ==
    /\ task[execution_id] = "engine"
    /\ task' = [ task EXCEPT ![execution_id] = "cancelled" ]
    /\ UNCHANGED << now, storage_pipelines, _pipeline_executions, returned, raised >>
    /\ UNCHANGED side_vars
    /\ UNCHANGED cache_vars
    /\ UNCHANGED bc

\* POST /{project_id}/sources: wrapper.add_source(key, content, metadata).
add_source(project_id, key, content) ==
    /\ Cached(project_id)
    /\ mock_project' = [ mock_project EXCEPT
                           ![_project_wrappers[project_id]] =
                               mock_add_source(@, key, content) ]
    /\ UNCHANGED << run_vars, response, wrapper_of, ws, active_connections >>
    /\ UNCHANGED cache_vars
    /\ UNCHANGED bc

\* DELETE /{project_id}/sources/{source_key}: wrapper.remove_source(source_key).
delete_source(project_id, source_key) ==
    /\ Cached(project_id)
    /\ mock_project' = [ mock_project EXCEPT
                           ![_project_wrappers[project_id]] =
                               mock_remove_source(@, source_key) ]
    /\ UNCHANGED << run_vars, response, wrapper_of, ws, active_connections >>
    /\ UNCHANGED cache_vars
    /\ UNCHANGED bc

\* GET /{project_id}/sources with the wrapper cached: wrapper.list_sources().
list_sources(project_id) ==
    /\ Cached(project_id)
    /\ response' = Response("list_sources", project_id, "", 0, 200,
                            Some(SourceKeys(mock_project[_project_wrappers[project_id]])))
    /\ UNCHANGED << run_vars, wrapper_of, mock_project, ws, active_connections >>
    /\ UNCHANGED << cache_vars, bc >>

\* ------------------------------------------------ ProjectService._get_wrapper
\* A request for a project that has no wrapper in the cache: _get_wrapper
\* finds the metadata file and awaits its reading.
get_wrapper_miss(r, project_id, op) ==
    /\ req[r].pc = "idle"
    /\ ~Cached(project_id)
    /\ project_id \in DOMAIN storage_pipelines
    /\ req' = [ req EXCEPT ![r] = [ pc |-> "loading", project_id |-> project_id,
                                    op |-> op, wrapper |-> None ] ]
    /\ UNCHANGED << run_vars, side_vars, _project_wrappers, bc >>

\* The number of wrappers built for a project so far.
Built(project_id) == Cardinality({ w \in DOMAIN mock_project : w[1] = project_id })

\* The metadata is read: a wrapper is built and initialized (a new
\* MockEFProject), stored in the cache whatever the cache holds by now, and
\* handed to the request.
get_wrapper_loaded(r) ==
    /\ req[r].pc = "loading"
    /\ LET project_id == req[r].project_id
           wrapper == Wrapper(project_id, Built(project_id) + 1)
       IN  /\ mock_project' = (wrapper :> NewMockProject) @@ mock_project
           /\ _project_wrappers' =
                  (project_id :> wrapper) @@ Without(_project_wrappers, project_id)
           /\ req' = [ req EXCEPT ![r].pc = "ready", ![r].wrapper = Some(wrapper) ]
    /\ UNCHANGED << run_vars, response, wrapper_of, ws, active_connections, bc >>

\* The endpoint of the request runs with the wrapper it was handed: add_source
\* adds a source to it, list_sources answers with its source keys.
request_body(r, key, content) ==
    /\ req[r].pc = "ready"
    /\ IF req[r].op = "add_source"
       THEN /\ mock_project' = [ mock_project EXCEPT
                                   ![req[r].wrapper[1]] = mock_add_source(@, key, content) ]
            /\ response' = Response("add_source", req[r].project_id, "", 0, 201, None)
       ELSE /\ response' = Response("list_sources", req[r].project_id, "", 0, 200,
                                    Some(SourceKeys(mock_project[req[r].wrapper[1]])))
            /\ UNCHANGED mock_project
    /\ req' = [ req EXCEPT ![r] = NoRequest ]
    /\ UNCHANGED << run_vars, wrapper_of, ws, active_connections, _project_wrappers, bc >>

\* ------------------------------------------------- /ws/executions/{execution_id}
\* The positions of websocket_execution_updates: "accepting" awaits
\* websocket.accept(), "send_initial" and "send_loop" await a send_json,
\* "sleep_poll" awaits asyncio.sleep(0.5), "sleep_final" awaits asyncio.sleep(1);
\* "ended" is the handler returning after its break, "dropped" its end by an
\* exception (the client went away).
Streaming == {"send_initial", "send_loop", "sleep_poll", "sleep_final"}

\* The number of messages delivered on a websocket, counted up to MaxCount.
Counted(n) == IF n < MaxCount THEN n + 1 ELSE n

\* What a handler's change of active_connections does to the set iterator of a
\* broadcast that is awaiting a send for the same execution: the set it iterates
\* has changed, and once the entry is deleted that set is no longer the one
\* active_connections holds.
iter_touch(b, execution_id, conns) ==
    IF b.pc = "sending" /\ b.execution_id = execution_id
    THEN [ b EXCEPT !.dirty = TRUE,
                    !.detached = @ \/ execution_id \notin DOMAIN conns ]
    ELSE b

\* active_connections[execution_id].add(websocket), creating the set if needed.
add_connection(conns, execution_id, s) ==
    IF execution_id \in DOMAIN conns
    THEN [ conns EXCEPT ![execution_id] = @ \cup {s} ]
    ELSE (execution_id :> {s}) @@ conns

\* A cleanup that deletes the whole entry of the execution.
discard_connection_all(conns, execution_id, s) ==
    [ e \in DOMAIN conns \ {execution_id} |-> conns[e] ]

\* A cleanup that discards the websocket and keeps an entry that became empty.
discard_connection_keeps_entry(conns, execution_id, s) ==
    IF execution_id \notin DOMAIN conns
    THEN conns
    ELSE [ conns EXCEPT ![execution_id] = @ \ {s} ]

\* The finally block: discard the websocket, delete the entry once it is empty.
discard_connection(conns, execution_id, s) ==
    IF execution_id \notin DOMAIN conns
    THEN conns
    ELSE IF conns[execution_id] \ {s} = {}
         THEN [ e \in DOMAIN conns \ {execution_id} |-> conns[e] ]
         ELSE [ conns EXCEPT ![execution_id] = @ \ {s} ]

\* A client opens the websocket; the handler awaits websocket.accept().
ws_connect(s, execution_id) ==
    /\ ws[s].pc = "idle"
    /\ ws' = [ ws EXCEPT ![s].pc = "accepting",
                         ![s].execution_id = execution_id,
                         ![s].late = /\ execution_id \in DOMAIN _pipeline_executions
                                     /\ _pipeline_executions[execution_id].status
                                            \in Terminal ]
    /\ UNCHANGED << run_vars, response, wrapper_of, mock_project, active_connections >>
    /\ UNCHANGED cache_vars
    /\ UNCHANGED bc

\* accept() returns: the websocket is added to active_connections; for a known
\* id send_json serializes the record and the handler awaits the initial send,
\* otherwise it falls through the loop body to asyncio.sleep(0.5).
ws_accepted(s) ==
    /\ ws[s].pc = "accepting"
    /\ active_connections' = add_connection(active_connections, ws[s].execution_id, s)
    /\ IF ws[s].execution_id \in DOMAIN _pipeline_executions
       THEN ws' = [ ws EXCEPT ![s].pc = "send_initial",
                              ![s].sent = Some(_pipeline_executions[ws[s].execution_id]) ]
       ELSE ws' = [ ws EXCEPT ![s].pc = "sleep_poll" ]
    /\ UNCHANGED << run_vars, response, wrapper_of, mock_project >>
    /\ UNCHANGED cache_vars
    /\ bc' = iter_touch(bc, ws[s].execution_id, active_connections')

\* The initial send completes; the loop takes the record and awaits its send.
ws_initial_sent(s) ==
    /\ ws[s].pc = "send_initial"
    /\ ws' = [ ws EXCEPT ![s].pc = "send_loop",
                         ![s].count = Counted(@),
                         ![s].sent = Some(_pipeline_executions[ws[s].execution_id]) ]
    /\ UNCHANGED << run_vars, response, wrapper_of, mock_project, active_connections >>
    /\ UNCHANGED cache_vars
    /\ UNCHANGED bc

\* The loop's send moves on while it always goes back to sleep(0.5).
ws_loop_sent_never_final(s) ==
    /\ ws[s].pc = "send_loop"
    /\ ws' = [ ws EXCEPT ![s].pc = "sleep_poll", ![s].count = Counted(@) ]
    /\ UNCHANGED << run_vars, response, wrapper_of, mock_project, active_connections >>
    /\ UNCHANGED cache_vars
    /\ UNCHANGED bc

\* The loop's send completes; status["status"] is read from the record itself
\* (status is the dict of the registry, not a copy): terminal leads to sleep(1)
\* and the break, anything else to sleep(0.5).
ws_loop_sent(s) ==
    /\ ws[s].pc = "send_loop"
    /\ ws' = [ ws EXCEPT
                 ![s].pc = IF _pipeline_executions[ws[s].execution_id].status \in Terminal
                           THEN "sleep_final" ELSE "sleep_poll",
                 ![s].count = Counted(@) ]
    /\ UNCHANGED << run_vars, response, wrapper_of, mock_project, active_connections >>
    /\ UNCHANGED cache_vars
    /\ UNCHANGED bc

\* sleep(0.5) is over: for a known id the loop serializes the record and awaits
\* the send, for an unknown id it sleeps again.
ws_poll(s) ==
    /\ ws[s].pc = "sleep_poll"
    /\ IF ws[s].execution_id \in DOMAIN _pipeline_executions
       THEN ws' = [ ws EXCEPT ![s].pc = "send_loop",
                              ![s].sent = Some(_pipeline_executions[ws[s].execution_id]) ]
       ELSE ws' = ws
    /\ UNCHANGED << run_vars, response, wrapper_of, mock_project, active_connections >>
    /\ UNCHANGED cache_vars
    /\ UNCHANGED bc

\* sleep(1) is over: break, the finally block, and the handler returns.
ws_close(s) ==
    /\ ws[s].pc = "sleep_final"
    /\ ws' = [ ws EXCEPT ![s].pc = "ended" ]
    /\ active_connections' =
           discard_connection(active_connections, ws[s].execution_id, s)
    /\ UNCHANGED << run_vars, response, wrapper_of, mock_project >>
    /\ UNCHANGED cache_vars
    /\ bc' = iter_touch(bc, ws[s].execution_id, active_connections')

\* A send raises (WebSocketDisconnect or another exception): the except
\* clauses swallow it and the finally block runs.
ws_send_fails(s) ==
    /\ ws[s].pc \in {"send_initial", "send_loop"}
    /\ ws' = [ ws EXCEPT ![s].pc = "dropped" ]
    /\ active_connections' =
           discard_connection(active_connections, ws[s].execution_id, s)
    /\ UNCHANGED << run_vars, response, wrapper_of, mock_project >>
    /\ UNCHANGED cache_vars
    /\ bc' = iter_touch(bc, ws[s].execution_id, active_connections')

\* ---------------------------------------------------- broadcast_execution_update
\* The call is made: without an entry for the execution it returns; otherwise
\* the for loop creates the iterator of the entry's set, takes a first
\* websocket and awaits the send to it.
broadcast_start(execution_id) ==
    /\ bc.pc \in {"idle", "done"}
    /\ IF execution_id \notin DOMAIN active_connections
       THEN bc' = [ NoBroadcast EXCEPT !.pc = "done", !.execution_id = execution_id ]
       ELSE IF active_connections[execution_id] = {}
       THEN bc' = [ NoBroadcast EXCEPT !.pc = "done", !.execution_id = execution_id ]
       ELSE \E w \in active_connections[execution_id] :
              bc' = [ NoBroadcast EXCEPT
                        !.pc = "sending",
                        !.execution_id = execution_id,
                        !.used = Cardinality(active_connections[execution_id]),
                        !.to = Some(w),
                        !.visited = {w} ]
    /\ UNCHANGED << run_vars, side_vars, cache_vars >>

\* The awaited send ends, with success or with an exception (then the websocket
\* is added to disconnected), and the for loop asks the iterator for the next
\* websocket. The iterator raises RuntimeError when the size of its set is not
\* the size at its creation; over a set that changed and has the old size the
\* order is unspecified, so that any member may come next or the loop may end.
\* After the loop the disconnected websockets are discarded from the entry.
broadcast_sent(ok) ==
    /\ bc.pc = "sending"
    /\ ok => ws[bc.to[1]].pc \in Streaming
    /\ ws' = IF ok THEN [ ws EXCEPT ![bc.to[1]].count = Counted(@) ] ELSE ws
    /\ LET disconnected == IF ok THEN bc.disconnected
                                 ELSE bc.disconnected \cup {bc.to[1]}
           execution_id == bc.execution_id
       IN  IF \/ bc.detached
              \/ Cardinality(active_connections[execution_id]) # bc.used
           THEN /\ bc' = [ bc EXCEPT !.pc = "raised", !.to = None,
                                     !.disconnected = disconnected ]
                /\ UNCHANGED active_connections
           ELSE \/ /\ \E w \in IF bc.dirty
                               THEN active_connections[execution_id]
                               ELSE active_connections[execution_id] \ bc.visited :
                         bc' = [ bc EXCEPT !.to = Some(w),
                                           !.visited = @ \cup {w},
                                           !.disconnected = disconnected ]
                   /\ UNCHANGED active_connections
                \/ /\ bc.dirty \/ active_connections[execution_id] \subseteq bc.visited
                   /\ bc' = [ bc EXCEPT !.pc = "done", !.to = None,
                                        !.disconnected = disconnected ]
                   /\ active_connections' =
                          [ active_connections EXCEPT
                              ![execution_id] = @ \ disconnected ]
    /\ UNCHANGED << run_vars, response, wrapper_of, mock_project, cache_vars >>

\* A status query that answers 404 unless the path names the project and the
\* pipeline of the execution.
status_query_scoped(project_id, pipeline_name, execution_id) ==
    /\ response' =
           IF /\ execution_id \in DOMAIN _pipeline_executions
              /\ \/ wrapper_of[execution_id][1][1] # project_id
                 \/ _pipeline_executions[execution_id].pipeline_name # pipeline_name
           THEN Response("status", project_id, pipeline_name, execution_id, 404, None)
           ELSE Response("status", project_id, pipeline_name, execution_id,
                         get_execution_status(execution_id).code,
                         get_execution_status(execution_id).body)
    /\ UNCHANGED run_vars
    /\ UNCHANGED << wrapper_of, mock_project, ws, active_connections >>
    /\ UNCHANGED cache_vars
    /\ UNCHANGED bc

\* GET /{project_id}/pipelines/{pipeline_name}/executions/{execution_id}: the
\* handler has no wrapper dependency and reads neither project_id nor
\* pipeline_name.
status_query(project_id, pipeline_name, execution_id) ==
    /\ response' =
           Response("status", project_id, pipeline_name, execution_id,
                    get_execution_status(execution_id).code,
                    get_execution_status(execution_id).body)
    /\ UNCHANGED run_vars
    /\ UNCHANGED << wrapper_of, mock_project, ws, active_connections >>
    /\ UNCHANGED cache_vars
    /\ UNCHANGED bc

\* ------------------------------------------------------------ specifications
Next ==
    \/ Tick
    \/ \E p \in Projects, n \in PipelineNames : create_pipeline(p, n)
    \/ \E p \in Projects, n \in PipelineNames : delete_pipeline(p, n)
    \/ \E p \in Projects, n \in PipelineNames : execute_pipeline(ExecIds, p, n)
    \/ \E p \in Projects, n \in PipelineNames : execute_pipeline_not_found(p, n)
    \/ \E e \in ExecIds : run_pipeline_start(e)
    \/ \E e \in ExecIds, r \in Reports : engine_report(e, r)
    \/ \E e \in ExecIds : engine_return(e)
    \/ \E e \in ExecIds, x \in Errors : engine_raise(e, x)
    \/ \E e \in ExecIds : task_cancelled(e)

Spec == Init /\ [][Next]_vars

\* The run of executions, observed by status queries; time stands still.
QueryProjects == Projects \cup {"no_such_project"}
NextQuery ==
    \/ \E p \in Projects, n \in PipelineNames : create_pipeline(p, n)
    \/ \E p \in Projects, n \in PipelineNames : execute_pipeline(ExecIds, p, n)
    \/ \E e \in ExecIds : run_pipeline_start(e)
    \/ \E e \in ExecIds, r \in Reports : engine_report(e, r)
    \/ \E e \in ExecIds : engine_return(e)
    \/ \E e \in ExecIds, x \in Errors : engine_raise(e, x)
    \/ \E e \in ExecIds : task_cancelled(e)
    \/ \E p \in QueryProjects, n \in PipelineNames, e \in ExecIds :
           status_query(p, n, e)

SpecQuery == Init /\ [][NextQuery]_vars

\* One execution and the websockets that follow it, or that name an id no run
\* request ever returned; the engine makes the last two reports of the mock.
StreamIds == {1}
SubscribeIds == {1, 2}
StreamReports == { MockReports[2], MockReports[3] }
ws_step(s) ==
    \/ ws_accepted(s)
    \/ ws_initial_sent(s)
    \/ ws_loop_sent(s)
    \/ ws_poll(s)
    \/ ws_close(s)
NextStream ==
    \/ \E p \in Projects, n \in PipelineNames : create_pipeline(p, n)
    \/ \E p \in Projects, n \in PipelineNames : execute_pipeline(StreamIds, p, n)
    \/ \E e \in StreamIds : run_pipeline_start(e)
    \/ \E e \in StreamIds, r \in StreamReports : engine_report(e, r)
    \/ \E e \in StreamIds : engine_return(e)
    \/ \E e \in StreamIds, x \in Errors : engine_raise(e, x)
    \/ \E e \in StreamIds : task_cancelled(e)
    \/ \E s \in Sockets, e \in SubscribeIds : ws_connect(s, e)
    \/ \E s \in Sockets : ws_step(s)
    \/ \E s \in Sockets : ws_send_fails(s)

SpecStream == Init /\ [][NextStream]_vars

\* The event loop resumes every handler whose await has completed.
SpecStreamFair == SpecStream /\ \A s \in Sockets : WF_vars(ws_step(s))

\* Runs of the bundled mock engine interleaved with the source endpoints.
SourceKeyNames == {"a", "b"}
SourceContents == {"text"}
NextSources ==
    \/ \E p \in Projects, n \in PipelineNames : create_pipeline(p, n)
    \/ \E p \in Projects, n \in PipelineNames : execute_pipeline(ExecIds, p, n)
    \/ \E e \in ExecIds : run_pipeline_start(e)
    \/ \E e \in ExecIds, i \in DOMAIN MockReports : engine_report(e, MockReports[i])
    \/ \E e \in ExecIds : engine_return(e)
    \/ \E p \in Projects, k \in SourceKeyNames, c \in SourceContents : add_source(p, k, c)
    \/ \E p \in Projects, k \in SourceKeyNames : delete_source(p, k)

SpecSources == Init /\ [][NextSources]_vars

\* Runs, subscribers, and the creation and deletion of projects and pipelines.
RetainSockets == {"ws1"}
NextRetain ==
    \/ \E p \in ProjectIds : create_project(p)
    \/ \E p \in ProjectIds : delete_project(p)
    \/ \E p \in ProjectIds, n \in PipelineNames : create_pipeline(p, n)
    \/ \E p \in ProjectIds, n \in PipelineNames : delete_pipeline(p, n)
    \/ \E p \in ProjectIds, n \in PipelineNames : execute_pipeline(ExecIds, p, n)
    \/ \E e \in ExecIds : run_pipeline_start(e)
    \/ \E e \in ExecIds : engine_return(e)
    \/ \E e \in ExecIds, x \in Errors : engine_raise(e, x)
    \/ \E s \in RetainSockets, e \in StreamIds : ws_connect(s, e)
    \/ \E s \in RetainSockets : ws_step(s)
    \/ \E s \in RetainSockets : ws_send_fails(s)

SpecRetain == Init /\ [][NextRetain]_vars

\* Runs of two pipelines in two projects, in flight at once.
PairPipelines == {"full_analysis", "quick"}
NextPair ==
    \/ \E p \in ProjectIds : create_project(p)
    \/ \E p \in ProjectIds, n \in PairPipelines : create_pipeline(p, n)
    \/ \E p \in ProjectIds, n \in PairPipelines : execute_pipeline(ExecIds, p, n)
    \/ \E e \in ExecIds : run_pipeline_start(e)
    \/ \E e \in ExecIds, r \in StreamReports : engine_report(e, r)
    \/ \E e \in ExecIds : engine_return(e)
    \/ \E e \in ExecIds, x \in Errors : engine_raise(e, x)

SpecPair == Init /\ [][NextPair]_vars

\* The websocket handlers together with calls of broadcast_execution_update.
NextBroadcast ==
    \/ \E p \in Projects, n \in PipelineNames : create_pipeline(p, n)
    \/ \E p \in Projects, n \in PipelineNames : execute_pipeline(StreamIds, p, n)
    \/ \E e \in StreamIds : run_pipeline_start(e)
    \/ \E e \in StreamIds : engine_return(e)
    \/ \E s \in Sockets, e \in StreamIds : ws_connect(s, e)
    \/ \E s \in Sockets : ws_step(s)
    \/ \E s \in Sockets : ws_send_fails(s)
    \/ \E e \in StreamIds : broadcast_start(e)
    \/ \E ok \in BOOLEAN : broadcast_sent(ok)

SpecBroadcast == Init /\ [][NextBroadcast]_vars

\* Source requests after a restart, with and without a wrapper in the cache.
RequestOps == {"add_source", "list_sources"}
NextWrappers ==
    \/ \E r \in Requests, p \in Projects, op \in RequestOps : get_wrapper_miss(r, p, op)
    \/ \E r \in Requests : get_wrapper_loaded(r)
    \/ \E r \in Requests, k \in SourceKeyNames, c \in SourceContents :
          request_body(r, k, c)
    \/ \E p \in Projects, k \in SourceKeyNames, c \in SourceContents : add_source(p, k, c)
    \/ \E p \in Projects : list_sources(p)

SpecWrappers == InitRestarted /\ [][NextWrappers]_vars

\* Status queries whose path names any project and any pipeline.
QueryPipelines == PipelineNames \cup {"no_such_pipeline"}
NextScope ==
    \/ \E p \in Projects, n \in PipelineNames : create_pipeline(p, n)
    \/ \E p \in Projects, n \in PipelineNames : execute_pipeline(ExecIds, p, n)
    \/ \E e \in ExecIds : run_pipeline_start(e)
    \/ \E e \in ExecIds, r \in Reports : engine_report(e, r)
    \/ \E e \in ExecIds : engine_return(e)
    \/ \E e \in ExecIds, x \in Errors : engine_raise(e, x)
    \/ \E p \in QueryProjects, n \in QueryPipelines, e \in ExecIds :
           status_query(p, n, e)

SpecScope == Init /\ [][NextScope]_vars

\* The same handlers with more executions than max_concurrent_pipelines; time
\* stands still and the engine makes no report.
NextLimit ==
    \/ \E p \in Projects, n \in PipelineNames : create_pipeline(p, n)
    \/ \E p \in Projects, n \in PipelineNames : execute_pipeline(LimitIds, p, n)
    \/ \E e \in LimitIds : run_pipeline_start(e)
    \/ \E e \in LimitIds : engine_return(e)
    \/ \E e \in LimitIds, x \in Errors : engine_raise(e, x)
    \/ \E e \in LimitIds : task_cancelled(e)

SpecLimit == Init /\ [][NextLimit]_vars

\* ------------------------------------------------------------------- claims
Known == DOMAIN _pipeline_executions
Rec(e) == _pipeline_executions[e]
InitialMessage == "Starting pipeline execution..."

\* C1: every execution_id returned by an accepted run request was returned once
\* only, exactly one record carries it, and a status query for it, in whatever
\* state it is issued after the response, finds the record (never 404).
C1_UniqueAndResolvable ==
    \A id \in ExecIds :
        /\ returned[id] <= 1
        /\ returned[id] >= 1 =>
             /\ id \in Known
             /\ \A other \in Known : (Rec(other).execution_id = id) <=> (other = id)
             /\ get_execution_status(id).code # 404

\* Two ids were returned, and the run of the second has not taken any step.
C1_Witness ==
    /\ returned[1] = 1
    /\ returned[2] = 1
    /\ task[2] = "queued"
    /\ get_execution_status(2).code = 200

\* C2: no more than max_concurrent_pipelines runs are inside the engine at once.
C2_AtMostMaxRunning ==
    Cardinality({ e \in LimitIds : task[e] = "engine" /\ Rec(e).status = "running" })
        <= max_concurrent_pipelines

\* C3: the progress of a record never decreases from one state to the next,
\* whatever the engine reports.
C3_ProgressNeverDecreases ==
    [][ \A e \in Known : _pipeline_executions'[e].progress >= Rec(e).progress ]_vars

\* C4: completed_at is set if and only if the status is completed or failed.
C4_CompletedAtIffTerminal ==
    \A e \in Known : (Rec(e).completed_at # None) <=> (Rec(e).status \in Terminal)

\* One record ended failed and stamped while another is still running, unstamped.
C4_Witness ==
    /\ {1, 2} \subseteq Known
    /\ Rec(1).status = "failed" /\ Rec(1).completed_at # None
    /\ Rec(2).status = "running" /\ Rec(2).completed_at = None
    /\ task[2] = "engine"

\* C5: error is non-null if and only if the status is failed.
C5_ErrorIffFailed ==
    \A e \in Known : (Rec(e).error # None) <=> (Rec(e).status = "failed")

\* One record failed with an error, another completed without one.
C5_Witness ==
    /\ {1, 2} \subseteq Known
    /\ Rec(1).status = "failed" /\ Rec(1).error = Some("engine error")
    /\ Rec(2).status = "completed" /\ Rec(2).error = None

\* C6: progress is 1.0 if and only if the status is completed.
C6_FullProgressIffCompleted ==
    \A e \in Known : (Rec(e).progress = 10) <=> (Rec(e).status = "completed")

\* C7: a record is created pending or running, its status stays one of the four
\* values and changes only pending->running, running->completed, running->failed.
C7_StatusTransitions ==
    [][ \A e \in ExecIds :
          /\ (e \notin Known /\ e \in DOMAIN _pipeline_executions') =>
                 _pipeline_executions'[e].status \in {"pending", "running"}
          /\ (e \in Known /\ e \in DOMAIN _pipeline_executions') =>
                 /\ _pipeline_executions'[e].status \in Statuses
                 /\ \/ _pipeline_executions'[e].status = Rec(e).status
                    \/ << Rec(e).status, _pipeline_executions'[e].status >> \in
                           { << "pending", "running" >>,
                             << "running", "completed" >>,
                             << "running", "failed" >> } ]_vars

\* Both terminal states have been entered.
C7_Witness ==
    /\ {1, 2} \subseteq Known
    /\ Rec(1).status = "completed"
    /\ Rec(2).status = "failed"

\* C8: a record that is completed or failed never changes again, and a
\* completed_at that is set is never written again.
C8_TerminalIsFinal ==
    [][ \A e \in Known :
          /\ Rec(e).status \in Terminal =>
                 (e \in DOMAIN _pipeline_executions' /\ _pipeline_executions'[e] = Rec(e))
          /\ (Rec(e).completed_at # None /\ e \in DOMAIN _pipeline_executions') =>
                 _pipeline_executions'[e].completed_at = Rec(e).completed_at ]_vars

\* A record became terminal at time 0, time has moved on, and the other run
\* is still going.
C8_Witness ==
    /\ {1, 2} \subseteq Known
    /\ Rec(1).status \in Terminal
    /\ Rec(1).completed_at = Some(0)
    /\ now = 1
    /\ task[2] = "engine"
    /\ Rec(2).progress = 5

\* C9: when the engine raises, before or after any report, the record is failed,
\* carries the description of what was raised and a completion stamp, the
\* background task has ended without the exception leaving it, and the run
\* request keeps its single 202 answer.
C9_EngineFailureRecorded ==
    \A e \in ExecIds :
        raised[e] # None =>
            /\ e \in Known
            /\ Rec(e).status = "failed"
            /\ Rec(e).error = raised[e]
            /\ Rec(e).completed_at # None
            /\ task[e] = "done"
            /\ returned[e] = 1

\* The engine raised before any report in one run and after a report in another.
C9_Witness ==
    /\ raised[1] = Some("engine error")
    /\ Rec(1).message = InitialMessage
    /\ raised[2] = Some("engine error")
    /\ Rec(2).progress = 10

\* C10: a record whose background task has ended, in whatever way, is completed
\* or failed.
C10_EndedTaskIsTerminal ==
    \A e \in Known :
        task[e] \in {"done", "cancelled"} => Rec(e).status \in Terminal

\* C11: the step that answers a run request with 202 leaves the run not yet
\* started; the response is the record as created: status pending or running,
\* progress 0.0, no completed_at, no error.
C11_AnsweredBeforeProgress ==
    [][ \A id \in ExecIds :
          returned'[id] > returned[id] =>
              /\ response'.op = "execute" /\ response'.code = 202
              /\ response'.body # None
              /\ response'.body[1].execution_id = id
              /\ response'.body[1].status \in {"pending", "running"}
              /\ response'.body[1].progress = 0
              /\ response'.body[1].completed_at = None
              /\ response'.body[1].error = None
              /\ task'[id] = "queued"
              /\ _pipeline_executions'[id] = response'.body[1] ]_vars

\* A second run request has just been answered while the first run is going on.
C11_Witness ==
    /\ response.code = 202
    /\ response.body[1].execution_id = 2
    /\ task[2] = "queued"
    /\ task[1] = "engine"
    /\ Rec(1).progress = 5

\* C12: a run request that names a pipeline the project does not have is
\* answered 404, and creates no record and starts no background task.
C12_UnknownPipelineRejected ==
    [][ ( /\ response' # response
          /\ response'.op = "execute"
          /\ response'.pipeline_name \notin list_pipelines(response'.project_id) ) =>
            /\ response'.code = 404
            /\ UNCHANGED << _pipeline_executions, task, returned, wrapper_of >> ]_vars

\* A run request was rejected after the pipeline of a running execution was deleted.
C12_Witness ==
    /\ response.op = "execute"
    /\ response.code = 404
    /\ 1 \in Known
    /\ task[1] = "engine"
    /\ Known = {1}

\* C13: a status query for an id that is not in the registry answers 404; one
\* for a known id answers with the record's current snapshot; neither changes
\* the registry.
C13_StatusQueryAnswers ==
    [][ (response' # response /\ response'.op = "status") =>
          /\ UNCHANGED _pipeline_executions
          /\ IF response'.execution_id \notin Known
             THEN response'.code = 404
             ELSE /\ response'.code = 200
                  /\ response'.body = Some(Rec(response'.execution_id)) ]_vars

\* The websockets registered for an execution.
Subscribers(e) == IF e \in DOMAIN active_connections THEN active_connections[e] ELSE {}

\* C14: a subscription that the server ended has delivered a snapshot whose
\* status is completed or failed, and that snapshot is the last message it
\* delivered.
C14_ServerEndedAfterTerminalSnapshot ==
    \A s \in Sockets :
        ws[s].pc = "ended" =>
            /\ ws[s].sent # None
            /\ ws[s].sent[1].status \in Terminal

\* C15: a subscriber that connected after the run reached completed or failed
\* has received exactly one snapshot when its subscription has ended.
C15_LateSubscriberGetsOneSnapshot ==
    \A s \in Sockets :
        (ws[s].pc = "ended" /\ ws[s].late) => ws[s].count = 1

\* C16: for a subscriber that stays connected, a recorded value of the
\* execution is replaced only after a snapshot carrying it was taken for the
\* subscriber, so that no recorded value is skipped between two snapshots.
C16_NoRecordedValueSkipped ==
    [][ \A s \in Sockets :
          ( /\ ws[s].pc \in Streaming
            /\ ws'[s].pc \in Streaming
            /\ ws[s].sent # None
            /\ _pipeline_executions'[ws[s].execution_id] # Rec(ws[s].execution_id) ) =>
              ws[s].sent = Some(Rec(ws[s].execution_id)) ]_vars

\* C17: when the send to one subscriber fails, every other subscriber keeps its
\* position, its delivered snapshots and its registration, no field of an
\* execution record changes, and no run is stopped or failed.
C17_SubscriberFailureIsIsolated ==
    [][ \A s \in Sockets :
          (ws[s].pc \in {"send_initial", "send_loop"} /\ ws'[s].pc = "dropped") =>
              /\ \A t \in Sockets \ {s} :
                    /\ ws'[t] = ws[t]
                    /\ \A e \in DOMAIN active_connections :
                          t \in active_connections[e] =>
                              /\ e \in DOMAIN active_connections'
                              /\ t \in active_connections'[e]
              /\ UNCHANGED << _pipeline_executions, task, returned, raised >> ]_vars

\* Of two subscribers of one execution the first was dropped on a failed send
\* while the run was going on, and the second went on to the terminal snapshot.
C17_Witness ==
    /\ ws["ws1"].pc = "dropped"
    /\ ws["ws1"].execution_id = 1
    /\ ~ws["ws1"].late
    /\ ws["ws2"].pc = "ended"
    /\ ws["ws2"].execution_id = 1
    /\ ws["ws2"].sent = Some(Rec(1))
    /\ Rec(1).status = "completed"

\* C18: a subscription to an existing execution whose run has reached a
\* terminal state eventually ends, and its websocket is then no longer in the
\* active set.
C18_SubscriptionEventuallyEnds ==
    \A s \in Sockets :
        ( /\ ws[s].pc \in Streaming \cup {"accepting"}
          /\ ws[s].execution_id \in Known
          /\ Rec(ws[s].execution_id).status \in Terminal )
        ~> ( /\ ws[s].pc \in {"ended", "dropped"}
             /\ s \notin Subscribers(ws[s].execution_id) )

\* A subscriber that connected before the run ended was closed by the server
\* after the run failed, and is no longer registered.
C18_Witness ==
    /\ ws["ws1"].pc = "ended"
    /\ ~ws["ws1"].late
    /\ ws["ws1"].execution_id = 1
    /\ Rec(1).status = "failed"
    /\ "ws1" \notin Subscribers(1)

\* C19: a subscription for an execution id that is not in the registry is
\* ended at once: no handler is streaming for an unknown id.
C19_UnknownIdNotKeptOpen ==
    \A s \in Sockets :
        ws[s].pc \in Streaming => ws[s].execution_id \in Known

\* C20: a run that the engine finishes while the project has no sources ends
\* completed with progress 1.0, and the four result collections of the project
\* are empty afterwards.
C20_NoSourcesNoResults ==
    [][ \A e \in ExecIds :
          ( /\ e \in Known
            /\ Rec(e).status = "running"
            /\ _pipeline_executions'[e].status # "running"
            /\ mock_project[wrapper_of[e][1]].sources = << >> ) =>
              /\ _pipeline_executions'[e].status = "completed"
              /\ _pipeline_executions'[e].progress = 10
              /\ DOMAIN mock_project'[wrapper_of[e][1]].segments = {}
              /\ DOMAIN mock_project'[wrapper_of[e][1]].embeddings = {}
              /\ DOMAIN mock_project'[wrapper_of[e][1]].planar_embeddings = {}
              /\ DOMAIN mock_project'[wrapper_of[e][1]].clusters = {} ]_vars

\* C21: the progress stored in a record is always within [0.0, 1.0], whatever
\* value the engine passes to the progress callback.
C21_ProgressWithinRange ==
    \A e \in Known : Rec(e).progress >= 0 /\ Rec(e).progress <= 10

\* C22: the execution_id, pipeline_name and started_at of a record never change
\* after the record is created.
C22_IdentityFieldsImmutable ==
    [][ \A e \in Known :
          /\ e \in DOMAIN _pipeline_executions'
          /\ _pipeline_executions'[e].execution_id = Rec(e).execution_id
          /\ _pipeline_executions'[e].pipeline_name = Rec(e).pipeline_name
          /\ _pipeline_executions'[e].started_at = Rec(e).started_at ]_vars

\* A run that was started at time 0 took a progress report and failed at time 1.
C22_Witness ==
    /\ 1 \in Known
    /\ Rec(1).status = "failed"
    /\ Rec(1).message = "Processing embeddings"
    /\ Rec(1).started_at = 0
    /\ Rec(1).completed_at = Some(1)

\* C23: no operation removes a record from the registry: the set of known
\* execution ids only grows, so a record stays resolvable by status query.
C23_RegistryOnlyGrows ==
    [][ \A e \in Known :
          /\ e \in DOMAIN _pipeline_executions'
          /\ get_execution_status(e)'.code # 404 ]_vars

\* Two runs of a project ended, a subscriber of the first was dropped, and the
\* project was deleted.
C23_Witness ==
    /\ Known = {1, 2}
    /\ Rec(1).status = "completed"
    /\ Rec(2).status = "failed"
    /\ "p1" \notin DOMAIN storage_pipelines
    /\ ws["ws1"].pc = "dropped"
    /\ ws["ws1"].execution_id = 1

\* C24: after a pipeline is deleted it is absent from the project's pipeline
\* list, and an execution record is only ever created for a pipeline that is in
\* the list at the time of the run request: a request after the deletion is
\* answered 404 and creates none.
C24_DeletedPipelineCannotRun ==
    [][ /\ (response' # response /\ response'.op = "delete_pipeline") =>
              /\ response'.code = 204
              /\ response'.pipeline_name \notin
                     storage_pipelines'[response'.project_id]
        /\ \A e \in DOMAIN _pipeline_executions' \ Known :
              _pipeline_executions'[e].pipeline_name
                  \in list_pipelines(wrapper_of'[e][1][1])
        /\ ( /\ response' # response
             /\ response.op = "delete_pipeline"
             /\ response.pipeline_name \notin list_pipelines(response.project_id)
             /\ response'.op = "execute"
             /\ response'.project_id = response.project_id
             /\ response'.pipeline_name = response.pipeline_name ) =>
              /\ response'.code = 404
              /\ UNCHANGED _pipeline_executions ]_vars

\* A pipeline ran to completion and was deleted, and a later run request for it
\* was rejected.
C24_Witness ==
    /\ response.op = "execute"
    /\ response.code = 404
    /\ Known = {1}
    /\ Rec(1).status = "completed"
    /\ Rec(1).pipeline_name = response.pipeline_name
    /\ storage_pipelines["p1"] = {}

\* The result collections of a MockEFProject.
Results(proj) ==
    << proj.segments, proj.embeddings, proj.planar_embeddings, proj.clusters >>

\* C25: in the step that makes a record completed, every source key of the
\* run's project gets an entry in segments, embeddings, planar embeddings and
\* clusters; the results are written in that step and in no other.
C25_ResultsWrittenWithCompletion ==
    [][ /\ \A e \in Known :
              (Rec(e).status # "completed"
                  /\ _pipeline_executions'[e].status = "completed") =>
                  \A k \in SourceKeys(mock_project[wrapper_of[e][1]]) :
                      \A i \in 1..4 :
                          k \in DOMAIN Results(mock_project'[wrapper_of[e][1]])[i]
        /\ \A w \in DOMAIN mock_project :
              Results(mock_project'[w]) # Results(mock_project[w]) =>
                  \E e \in Known :
                      /\ wrapper_of[e] = Some(w)
                      /\ Rec(e).status = "running"
                      /\ _pipeline_executions'[e].status = "completed" ]_vars

\* A run completed in a project with two sources, and each has its results.
C25_Witness ==
    /\ 1 \in Known
    /\ Rec(1).status = "completed"
    /\ SourceKeys(mock_project[wrapper_of[1][1]]) = {"a", "b"}
    /\ \A i \in 1..4 : DOMAIN Results(mock_project[wrapper_of[1][1]])[i] = {"a", "b"}

\* C26: a step that changes an execution record is a step of that record's own
\* run and leaves every field of every other record unchanged.
C26_RunsDoNotInterfere ==
    [][ \A e \in Known :
          _pipeline_executions'[e] # Rec(e) =>
              /\ task[e] = "engine"
              /\ \A f \in Known \ {e} : _pipeline_executions'[f] = Rec(f) ]_vars

\* Two runs of different pipelines in different projects were in flight at
\* once: the first has completed, the second has taken a progress report.
C26_Witness ==
    /\ Known = {1, 2}
    /\ wrapper_of[1][1][1] # wrapper_of[2][1][1]
    /\ Rec(1).pipeline_name # Rec(2).pipeline_name
    /\ Rec(1).status = "completed"
    /\ Rec(2).status = "running"
    /\ Rec(2).progress = 5
    /\ Rec(2).started_at = Rec(1).started_at

\* C27: broadcast_execution_update never ends by raising, whatever the
\* subscribers of the execution do while it awaits a send.
C27_BroadcastNeverRaises ==
    bc.pc # "raised"

\* C28: the websocket of a handler that has ended is in no set of
\* active_connections, and every entry of active_connections belongs to an
\* execution that some handler is still streaming.
C28_EndedSubscribersAreRemoved ==
    /\ \A s \in Sockets :
          ws[s].pc \in {"ended", "dropped"} =>
              \A e \in DOMAIN active_connections : s \notin active_connections[e]
    /\ \A e \in DOMAIN active_connections :
          \E s \in Sockets : ws[s].execution_id = e /\ ws[s].pc \in Streaming

\* Both subscribers of an execution have ended, one closed by the server and
\* one dropped after a broadcast had discarded it, and no entry is left.
C28_Witness ==
    /\ ws["ws1"].pc = "ended"
    /\ ws["ws2"].pc = "dropped"
    /\ ws["ws1"].execution_id = 1
    /\ ws["ws2"].execution_id = 1
    /\ bc.pc = "done"
    /\ bc.disconnected = {"ws2"}
    /\ active_connections = << >>

\* C29: at most one wrapper is ever built for a project, and every source that
\* was added through any request is held by the wrapper that later requests
\* obtain from the cache.
C29_OneWrapperPerProject ==
    /\ \A w1, w2 \in DOMAIN mock_project : w1[1] = w2[1] => w1 = w2
    /\ \A w \in DOMAIN mock_project :
          (Cached(w[1]) /\ \A r \in Requests : req[r].wrapper # Some(w)) =>
              SourceKeys(mock_project[w])
                  \subseteq SourceKeys(mock_project[_project_wrappers[w[1]]])

\* C30: the answer to a status query is determined by the execution id and the
\* registry alone, whatever project and pipeline its path names: 404 for an
\* unknown id, else the record's snapshot (or the error of a record the
\* response model rejects).
C30_StatusQueryIgnoresPath ==
    [][ (response' # response /\ response'.op = "status") =>
          LET e == response'.execution_id
          IN  /\ e \notin Known => response'.code = 404 /\ response'.body = None
              /\ (e \in Known /\ PipelineExecutionValid(Rec(e))) =>
                     response'.code = 200 /\ response'.body = Some(Rec(e))
              /\ (e \in Known /\ ~PipelineExecutionValid(Rec(e))) =>
                     response'.code = 500 /\ response'.body = None ]_vars

\* A query that named a project that does not exist and another pipeline was
\* answered with the snapshot of a completed run.
C30_Witness ==
    /\ response.op = "status"
    /\ response.project_id = "no_such_project"
    /\ response.pipeline_name = "no_such_pipeline"
    /\ response.code = 200
    /\ response.execution_id = 1
    /\ response.body = Some(Rec(1))
    /\ Rec(1).status = "completed"

====
